---- MODULE Spec2Model ----
(***************************************************************************)
(* Wallet generator (wallet_generator.py) and security isolation module    *)
(* (security_isolation.py) as a state machine.                             *)
(*                                                                         *)
(* Strings that the code inspects are kept structured so that the string   *)
(* operations of the code (lower, startswith, split, splitext, join) are   *)
(* computed rather than assumed:                                           *)
(*   - a path is [abs, parts], parts a sequence of components;             *)
(*   - a component is [stem, n, ext], stem and ext the sequences of the    *)
(*     pieces they were formatted from: "w.xlsx" is [<<w>>, 0, <<xlsx>>],  *)
(*     "w_1.xlsx" is [<<w>>, 1, <<xlsx>>], "eth_wallets" is                *)
(*     [<<eth, _wallets>>, 0, <<>>] and "w.xlsx.tmp" has ext <<xlsx, tmp>>;*)
(*   - a hex string is [ox, id]: ox tells whether it starts with "0x".     *)
(* A freshly generated mnemonic is a fresh identifier (nextId).            *)
(***************************************************************************)
EXTENDS Integers, Sequences, FiniteSets, TLC

VARIABLES
    platform,     \* os.name: "posix" or "nt"
    hexPrefix,    \* whether HexBytes.hex() of the installed library yields "0x..."
    dirs,         \* directories that exist
    files,        \* path -> [data, mode] of the regular files that exist
    nextId,       \* source of fresh mnemonics
    calls,        \* top-level invocations made so far
    mpc,          \* position of the __main__ block
    args,         \* argparse namespace / values collected by main_menu
    gen,          \* the WalletGenerator object and the progress of run()
    exp,          \* the activation of export_to_excel
    log,          \* completed exports, oldest first
    mem,          \* SecurityIsolation._secure_memory
    temp_dir,     \* SecurityIsolation._temp_dir
    tmpSeq,       \* mkdtemp name counter
    lastGet,      \* last get_from_memory call and what it returned
    shadow,       \* plain key -> value put since the last cleanup
    sfw,          \* the activation of secure_file_write
    guard         \* the activation of check_runtime_environment

vars == <<platform, hexPrefix, dirs, files, nextId, calls, mpc, args,
          gen, exp, log, mem, temp_dir, tmpSeq, lastGet, shadow, sfw, guard>>

fsVars == <<dirs, files>>
isoVars == <<mem, temp_dir, tmpSeq, lastGet, shadow, sfw>>
cliVars == <<mpc, args>>

-----------------------------------------------------------------------------
(* Bounds *)

MaxCount == 2       \* largest batch size requested
MaxRuns == 2        \* top-level invocations in one behaviour
MaxOps == 3         \* secure-store operations in one behaviour

-----------------------------------------------------------------------------
(* Strings *)

None == "None"

\* str.strip() on the inputs the model feeds in
Strip(s) ==
    CASE s = " Sol " -> "Sol"
      [] OTHER -> s

\* str.lower() on the inputs the model feeds in
Lower(s) ==
    CASE s = "ETH" -> "eth"
      [] s = "Sol" -> "sol"
      [] s = " Sol " -> " sol "
      [] OTHER -> s

-----------------------------------------------------------------------------
(* os.path *)

Comp(stem, ext) == [stem |-> stem, n |-> 0, ext |-> ext]
DirComp(name) == Comp(name, <<>>)
Rel(parts) == [abs |-> FALSE, parts |-> parts]
Abs(parts) == [abs |-> TRUE, parts |-> parts]
EmptyPath == Rel(<<>>)

Front(s) == SubSeq(s, 1, Len(s) - 1)
Last(s) == s[Len(s)]

\* os.path.join(a, b): an absolute b discards a
PathJoin(a, b) ==
    IF b.abs THEN b ELSE [abs |-> a.abs, parts |-> a.parts \o b.parts]

\* os.path.dirname(p)
PathDirname(p) == [abs |-> p.abs, parts |-> Front(p.parts)]

\* os.path.basename(p)
PathBasename(p) == Rel(<<Last(p.parts)>>)

\* os.path.basename(filename).split('.')[0] joined under output_dir
BaseName(output_dir, filename) ==
    PathJoin(output_dir, Rel(<<DirComp(Last(PathBasename(filename).parts).stem)>>))

\* os.path.splitext(filename)[1]
SplitExt(filename) == Last(filename.parts).ext

\* f"{base_name}_{counter}{ext}": the text of base_name with a suffix
Suffixed(base_name, counter, ext) ==
    [abs |-> base_name.abs,
     parts |-> Front(base_name.parts) \o
               <<[stem |-> Last(base_name.parts).stem, n |-> counter,
                 ext |-> ext]>>]

\* every proper or improper prefix of p that names a directory level
Prefixes(p) == {[abs |-> p.abs, parts |-> SubSeq(p.parts, 1, k)] : k \in 0..Len(p.parts)}

-----------------------------------------------------------------------------
(* File system *)

IsRoot(p) == p.parts = <<>>

DirExists(p) == IsRoot(p) \/ p \in dirs
FileExists(p) == p \in DOMAIN files

\* os.path.exists(p)
PathExists(p) == (~IsRoot(p) /\ p \in dirs) \/ FileExists(p) \/ (IsRoot(p) /\ p.abs)

\* os.makedirs(p, exist_ok=True) succeeds unless a level is a regular file
MakedirsOk(p) == \A q \in Prefixes(p) : ~FileExists(q)
MakedirsResult(p) == dirs \cup {q \in Prefixes(p) : ~IsRoot(q)}

\* open(p, 'w') / ExcelWriter(p): the parent must be a directory, p must not be one
CanCreate(p) == ~IsRoot(p) /\ DirExists(PathDirname(p)) /\ p \notin dirs

PutFile(fs, p, rec) == [q \in DOMAIN fs \cup {p} |-> IF q = p THEN rec ELSE fs[q]]
DropFile(fs, p) == [q \in DOMAIN fs \ {p} |-> fs[q]]

NoFiles == [q \in {} |-> 0]

\* mode of a file just created by open(): 0666 & ~umask
DefaultMode == "default"
\* what the permission step leaves on each platform
RestrictedMode == IF platform = "nt" THEN "readonly" ELSE "0600"

-----------------------------------------------------------------------------
(* Wallet records *)

Fields == {"address", "private_key", "mnemonic"}

\* WalletGenerator.generate_eth_wallet with mnemonic id
generate_eth_wallet(id) ==
    [address |-> [ox |-> TRUE, id |-> id],
     private_key |-> [ox |-> hexPrefix, id |-> id],
     mnemonic |-> [ox |-> FALSE, id |-> id]]

\* WalletGenerator.generate_sol_wallet with mnemonic id
generate_sol_wallet(id) ==
    [address |-> [ox |-> FALSE, id |-> id],
     private_key |-> [ox |-> FALSE, id |-> id],
     mnemonic |-> [ox |-> FALSE, id |-> id]]

\* the dispatch of run(): eth if chain_type == 'eth' else sol
ProviderFor(chain_type) == IF chain_type = "eth" THEN "eth" ELSE "sol"

NewWallet(provider, id) ==
    IF provider = "eth" THEN generate_eth_wallet(id) ELSE generate_sol_wallet(id)

NoGen == [chain_type |-> None, count |-> 0, wallets |-> <<>>, i |-> 0,
          status |-> "none", providers |-> {}, failedAt |-> 0]

\* mutant: the loop of run() written as range(2, count + 1)
NewGenerator_FromTwo(chain_type, count) ==
    [chain_type |-> Lower(chain_type), count |-> count, wallets |-> <<>>, i |-> 2,
     status |-> "running", providers |-> {}, failedAt |-> 0]

\* WalletGenerator.__init__
NewGenerator(chain_type, count) ==
    [chain_type |-> Lower(chain_type), count |-> count, wallets |-> <<>>, i |-> 1,
     status |-> "running", providers |-> {}, failedAt |-> 0]

\* one iteration of the loop of run(): the provider returns a wallet
RunIterate ==
    /\ gen.status = "running"
    /\ gen.i <= gen.count
    /\ LET p == ProviderFor(gen.chain_type) IN
         gen' = [gen EXCEPT !.wallets = Append(@, NewWallet(p, nextId)),
                            !.i = @ + 1,
                            !.providers = @ \cup {p}]
    /\ nextId' = nextId + 1
    /\ UNCHANGED <<platform, hexPrefix, fsVars, calls, cliVars, exp, log,
                   isoVars, guard>>

\* one iteration of the loop of run(): the provider raises
RunProviderRaises ==
    /\ gen.status = "running"
    /\ gen.i <= gen.count
    /\ gen' = [gen EXCEPT !.status = "raised",
                          !.failedAt = gen.i,
                          !.providers = @ \cup {ProviderFor(gen.chain_type)}]
    /\ UNCHANGED <<platform, hexPrefix, fsVars, nextId, calls, cliVars, exp,
                   log, isoVars, guard>>

\* the loop of run() is exhausted: return self.wallets
RunReturn ==
    /\ gen.status = "running"
    /\ gen.i > gen.count
    /\ gen' = [gen EXCEPT !.status = "returned"]
    /\ UNCHANGED <<platform, hexPrefix, fsVars, nextId, calls, cliVars, exp,
                   log, isoVars, guard>>

-----------------------------------------------------------------------------
(* export_to_excel *)

\* pd.DataFrame(wallets).columns: the union of the records' keys
Columns(wallets) == UNION {DOMAIN wallets[k] : k \in 1..Len(wallets)}

required_fields == <<"private_key", "mnemonic">>

\* the first required field that is not a column, or None
MissingField(wallets) ==
    IF \E k \in 1..Len(required_fields) : required_fields[k] \notin Columns(wallets)
    THEN required_fields[CHOOSE k \in 1..Len(required_fields) :
            /\ required_fields[k] \notin Columns(wallets)
            /\ \A j \in 1..(k - 1) : required_fields[j] \in Columns(wallets)]
    ELSE None

\* df['private_key'].str.startswith('0x').all(): missing cells are skipped
AllStartWith0x(wallets) ==
    \A k \in 1..Len(wallets) :
        "private_key" \in DOMAIN wallets[k] => wallets[k].private_key.ox

\* "eth" if 'private_key' in df.columns and ...all() else "sol"
ChainTypeOf(wallets) ==
    IF "private_key" \in Columns(wallets) /\ AllStartWith0x(wallets)
    THEN "eth" ELSE "sol"

\* os.path.join(os.path.dirname(filename), f"{chain_type}_wallets")
OutputDir(wallets, filename) ==
    PathJoin(PathDirname(filename),
             Rel(<<DirComp(<<ChainTypeOf(wallets), "_wallets">>)>>))

\* final_path = os.path.join(output_dir, filename)
FirstCandidate(output_dir, filename) == PathJoin(output_dir, filename)

\* final_path = os.path.join(output_dir, f"{base_name}_{counter}{ext}")
NextCandidate(output_dir, base_name, counter, ext) ==
    PathJoin(output_dir, Suffixed(base_name, counter, ext))

NoExport == [pc |-> "idle", wallets |-> <<>>, filename |-> EmptyPath,
             output_dir |-> EmptyPath, base_name |-> EmptyPath, ext |-> <<>>,
             counter |-> 0, final_path |-> EmptyPath, result |-> "none",
             warned |-> FALSE, error |-> None,
             fs0 |-> [dirs |-> {}, files |-> NoFiles]]

ExportBusy == exp.pc \notin {"idle", "done"}

\* entry of export_to_excel(wallets, filename)
ExportEnter(wallets, filename) ==
    [NoExport EXCEPT !.pc = "validate", !.wallets = wallets, !.filename = filename,
                     !.fs0 = [dirs |-> dirs, files |-> files]]

LogEntry(e) == [filename |-> e.filename, wallets |-> e.wallets, result |-> e.result,
                path |-> e.final_path, warned |-> e.warned, error |-> e.error]

\* the except clause of export_to_excel: print the failure and return
ExportFail(error) ==
    /\ exp' = [exp EXCEPT !.pc = "done", !.result = "failed", !.error = error]
    /\ log' = Append(log, LogEntry(exp'))

\* lines 80-86: build the frame and look for the required columns
ExportValidate ==
    /\ exp.pc = "validate"
    /\ IF MissingField(exp.wallets) # None
       THEN ExportFail("ValueError")
       ELSE /\ exp' = [exp EXCEPT !.pc = "mkdir"]
            /\ UNCHANGED log
    /\ UNCHANGED <<platform, hexPrefix, fsVars, nextId, calls, cliVars, gen,
                   isoVars, guard>>

\* lines 89-97: the chain-named directory and the first candidate path
ExportMkdir ==
    /\ exp.pc = "mkdir"
    /\ LET od == OutputDir(exp.wallets, exp.filename) IN
         IF MakedirsOk(od)
         THEN /\ dirs' = MakedirsResult(od)
              /\ exp' = [exp EXCEPT !.pc = "pick",
                                    !.output_dir = od,
                                    !.base_name = BaseName(od, exp.filename),
                                    !.ext = SplitExt(exp.filename),
                                    !.counter = 1,
                                    !.final_path = FirstCandidate(od, exp.filename)]
              /\ UNCHANGED log
         ELSE /\ ExportFail("FileExistsError")
              /\ UNCHANGED dirs
    /\ UNCHANGED <<platform, hexPrefix, files, nextId, calls, cliVars, gen,
                   isoVars, guard>>

\* lines 98-100: one turn of the while loop over taken paths
ExportPickNext ==
    /\ exp.pc = "pick"
    /\ PathExists(exp.final_path)
    /\ exp' = [exp EXCEPT !.final_path =
                              NextCandidate(exp.output_dir, exp.base_name,
                                            exp.counter, exp.ext),
                          !.counter = @ + 1]
    /\ UNCHANGED <<platform, hexPrefix, fsVars, nextId, calls, cliVars, gen,
                   log, isoVars, guard>>

\* lines 101-103: a free path is found and the writer opens it
ExportOpen ==
    /\ exp.pc = "pick"
    /\ ~PathExists(exp.final_path)
    /\ IF CanCreate(exp.final_path)
       THEN /\ files' = PutFile(files, exp.final_path,
                                [data |-> <<>>, mode |-> DefaultMode])
            /\ exp' = [exp EXCEPT !.pc = "save"]
            /\ UNCHANGED log
       ELSE /\ ExportFail("OSError")
            /\ UNCHANGED files
    /\ UNCHANGED <<platform, hexPrefix, dirs, nextId, calls, cliVars, gen,
                   isoVars, guard>>

\* lines 104-115: the sheet is written when the with block closes
ExportSave ==
    /\ exp.pc = "save"
    /\ files' = PutFile(files, exp.final_path,
                        [data |-> exp.wallets, mode |-> files[exp.final_path].mode])
    /\ exp' = [exp EXCEPT !.pc = "chmod"]
    /\ UNCHANGED <<platform, hexPrefix, dirs, nextId, calls, cliVars, gen,
                   log, isoVars, guard>>

\* mutant: the permission step leaves the mode as it was
ChmodResult_Noop(rec) == rec

\* what the permission step of lines 118-123 writes when it succeeds
ChmodResult(rec) == [rec EXCEPT !.mode = RestrictedMode]

\* lines 118-128: permissions set, success printed
ExportChmod ==
    /\ exp.pc = "chmod"
    /\ files' = PutFile(files, exp.final_path, ChmodResult(files[exp.final_path]))
    /\ exp' = [exp EXCEPT !.pc = "done", !.result = "success"]
    /\ log' = Append(log, LogEntry(exp'))
    /\ UNCHANGED <<platform, hexPrefix, dirs, nextId, calls, cliVars, gen,
                   isoVars, guard>>

\* lines 118-128: the permission call raises (chmod refused, win32api missing);
\* the warning is printed and then success
ExportChmodRaises ==
    /\ exp.pc = "chmod"
    /\ exp' = [exp EXCEPT !.pc = "done", !.result = "success", !.warned = TRUE]
    /\ log' = Append(log, LogEntry(exp'))
    /\ UNCHANGED <<platform, hexPrefix, fsVars, nextId, calls, cliVars, gen,
                   isoVars, guard>>

ExportStep ==
    \/ ExportValidate
    \/ ExportMkdir
    \/ ExportPickNext
    \/ ExportOpen
    \/ ExportSave
    \/ ExportChmod
    \/ ExportChmodRaises

-----------------------------------------------------------------------------
(* __main__, parse_args, main_menu *)

IntArg(v) == [kind |-> "int", val |-> v]
NoArg == [kind |-> "none", val |-> 0]
BadArg == [kind |-> "bad", val |-> 0]

\* what the user may put after --chain (None: flag absent) and after --count
ChainArgs == {None, "eth", "sol", "ETH", "btc"}
CountArgs == {NoArg, BadArg} \cup {IntArg(v) : v \in (-1)..MaxCount}

\* what the user may type at the prompts of main_menu
ChainInputs == {"eth", "sol", "ETH", " Sol ", "btc"}
CountInputs == {BadArg} \cup {IntArg(v) : v \in (-1)..MaxCount}

NoArgs == [chain |-> None, count |-> NoArg, fs0 |-> [dirs |-> {}, files |-> NoFiles]]

\* argparse: choices=['eth', 'sol'] for --chain, type=int for --count
ArgparseAccepts(a) ==
    /\ a.chain \in {None, "eth", "sol"}
    /\ a.count.kind # "bad"

\* if args.chain and args.count
FlagsGiven(a) ==
    /\ a.chain # None
    /\ a.count.kind = "int"
    /\ a.count.val # 0

\* if chain in ['eth', 'sol']
MenuChainValid(chain) == chain \in {"eth", "sol"}

\* count = int(input(...)); if count > 0
MenuCountValid(c) == c.kind = "int" /\ c.val > 0

\* f"{chain}_wallets.xlsx"
MainFilename(chain) == Rel(<<Comp(<<chain, "_wallets">>, <<"xlsx">>)>>)

\* mutant: the partial batch of a failed run() is exported too
RunCompleted_OrRaised == gen.status \in {"returned", "raised"}

\* generator.run() returned to line 190
RunCompleted == gen.status = "returned"

\* the interpreter starts the script with a command line
MainStart(chainArg, countArg) ==
    /\ mpc = "idle"
    /\ calls < MaxRuns
    /\ calls' = calls + 1
    /\ mpc' = "parse"
    /\ args' = [chain |-> chainArg, count |-> countArg,
                fs0 |-> [dirs |-> dirs, files |-> files]]
    /\ gen' = NoGen
    /\ exp' = NoExport
    /\ UNCHANGED <<platform, hexPrefix, fsVars, nextId, log, isoVars, guard>>

\* lines 181-186
MainParseArgs ==
    /\ mpc = "parse"
    /\ mpc' = IF ~ArgparseAccepts(args) THEN "exit"
              ELSE IF FlagsGiven(args) THEN "construct"
              ELSE "menu_chain"
    /\ UNCHANGED <<platform, hexPrefix, fsVars, nextId, calls, args, gen, exp, log,
                   isoVars, guard>>

\* lines 146-150: one turn of the chain prompt
MenuChain(input) ==
    /\ mpc = "menu_chain"
    /\ IF MenuChainValid(Lower(Strip(input)))
       THEN /\ args' = [args EXCEPT !.chain = Lower(Strip(input))]
            /\ mpc' = "menu_count"
       ELSE UNCHANGED <<args, mpc>>
    /\ UNCHANGED <<platform, hexPrefix, fsVars, nextId, calls, gen, exp, log,
                   isoVars, guard>>

\* lines 153-160: one turn of the count prompt
MenuCount(input) ==
    /\ mpc = "menu_count"
    /\ IF MenuCountValid(input)
       THEN /\ args' = [args EXCEPT !.count = input]
            /\ mpc' = "construct"
       ELSE UNCHANGED <<args, mpc>>
    /\ UNCHANGED <<platform, hexPrefix, fsVars, nextId, calls, gen, exp, log,
                   isoVars, guard>>

\* line 189: generator = WalletGenerator(chain, count)
MainConstruct ==
    /\ mpc = "construct"
    /\ gen' = NewGenerator(args.chain, args.count.val)
    /\ mpc' = "run"
    /\ UNCHANGED <<platform, hexPrefix, fsVars, nextId, calls, args, exp, log,
                   isoVars, guard>>

\* lines 190-193: run() returned, export_to_excel is called
MainExport ==
    /\ mpc = "run"
    /\ RunCompleted
    /\ exp' = ExportEnter(gen.wallets, MainFilename(args.chain))
    /\ mpc' = "export"
    /\ UNCHANGED <<platform, hexPrefix, fsVars, nextId, calls, args, gen, log,
                   isoVars, guard>>

\* lines 197-202: run() raised, the except clause prints the diagnosis
MainExcept ==
    /\ mpc = "run"
    /\ gen.status = "raised"
    /\ mpc' = "exit"
    /\ UNCHANGED <<platform, hexPrefix, fsVars, nextId, calls, args, gen, exp, log,
                   isoVars, guard>>

\* export_to_excel returned (it never raises)
MainExportReturns ==
    /\ mpc = "export"
    /\ exp.pc = "done"
    /\ mpc' = "exit"
    /\ UNCHANGED <<platform, hexPrefix, fsVars, nextId, calls, args, gen, exp, log,
                   isoVars, guard>>

\* lines 203-204: finally, and the process ends
MainExit ==
    /\ mpc = "exit"
    /\ mpc' = "idle"
    /\ UNCHANGED <<platform, hexPrefix, fsVars, nextId, calls, args, gen, exp, log,
                   isoVars, guard>>

-----------------------------------------------------------------------------
(* Direct use of WalletGenerator and export_to_excel *)

EthRecord(id) ==
    [address |-> [ox |-> TRUE, id |-> id], private_key |-> [ox |-> TRUE, id |-> id],
     mnemonic |-> [ox |-> FALSE, id |-> id]]
SolRecord(id) ==
    [address |-> [ox |-> FALSE, id |-> id], private_key |-> [ox |-> FALSE, id |-> id],
     mnemonic |-> [ox |-> FALSE, id |-> id]]
Without(rec, field) == [f \in DOMAIN rec \ {field} |-> rec[f]]

\* batches handed to export_to_excel
ApiBatches ==
    { <<>>,
      <<EthRecord(91)>>,
      <<SolRecord(92)>>,
      <<EthRecord(93), Without(EthRecord(94), "mnemonic")>>,
      <<Without(SolRecord(95), "mnemonic")>>,
      <<Without(SolRecord(96), "private_key"), SolRecord(97)>> }

\* file names handed to export_to_excel: "w.xlsx", "out/w.xlsx", "/out/w.xlsx"
ApiFilenames ==
    { Rel(<<Comp(<<"w">>, <<"xlsx">>)>>),
      Rel(<<DirComp(<<"out">>), Comp(<<"w">>, <<"xlsx">>)>>),
      Abs(<<DirComp(<<"out">>), Comp(<<"w">>, <<"xlsx">>)>>) }

ApiChains == {"eth", "sol", "ETH", "btc"}
ApiCounts == (-1)..MaxCount

ApiIdle == mpc = "idle" /\ gen.status # "running" /\ ~ExportBusy

\* WalletGenerator(chain, count).run()
ApiGenerate(chain, count) ==
    /\ ApiIdle
    /\ calls < MaxRuns
    /\ calls' = calls + 1
    /\ gen' = NewGenerator(chain, count)
    /\ UNCHANGED <<platform, hexPrefix, fsVars, nextId, cliVars, exp, log, isoVars,
                   guard>>

\* export_to_excel(wallets, filename)
ApiExport(wallets, filename) ==
    /\ ApiIdle
    /\ wallets \in ApiBatches \cup (IF RunCompleted THEN {gen.wallets} ELSE {})
    /\ calls < MaxRuns
    /\ calls' = calls + 1
    /\ exp' = ExportEnter(wallets, filename)
    /\ UNCHANGED <<platform, hexPrefix, fsVars, nextId, cliVars, gen, log, isoVars,
                   guard>>

-----------------------------------------------------------------------------
(* SecurityIsolation *)

\* hashlib.sha256(key.encode()).hexdigest(), by its leading hex digits
Sha256Hex(key) ==
    CASE key = "a" -> "ca978112ca1bbdca"
      [] key = "b" -> "3e23e8160039594a"
      [] key = "" -> "e3b0c44298fc1c14"

StoreKeys == {"a", "b", ""}
StoreValues == {"secret", "other"}

NoMem == [d \in {} |-> None]

\* self._secure_memory[hashed_key] = value
MemPut(m, key, value) ==
    [d \in DOMAIN m \cup {Sha256Hex(key)} |->
        IF d = Sha256Hex(key) THEN value ELSE m[d]]

\* self._secure_memory.get(hashed_key)
MemGet(m, key) == IF Sha256Hex(key) \in DOMAIN m THEN m[Sha256Hex(key)] ELSE None

\* mutant: cleanup() leaves the entries in place
MemClear_Keep(m) == m

\* self._secure_memory.clear()
MemClear(m) == NoMem

NoGet == [key |-> None, result |-> None, expected |-> None, n |-> 0]
NoSfw == [pc |-> "idle", filepath |-> EmptyPath, temp_path |-> EmptyPath,
          data |-> <<>>, result |-> None]

SfwBusy == sfw.pc \notin {"idle", "done"}

\* store_in_memory(key, value)
StoreInMemory(key, value) ==
    /\ ~SfwBusy
    /\ calls < MaxOps
    /\ calls' = calls + 1
    /\ mem' = MemPut(mem, key, value)
    /\ shadow' = [k \in DOMAIN shadow \cup {key} |-> IF k = key THEN value ELSE shadow[k]]
    /\ UNCHANGED <<platform, hexPrefix, fsVars, nextId, cliVars, gen, exp, log,
                   temp_dir, tmpSeq, lastGet, sfw, guard>>

\* get_from_memory(key)
GetFromMemory(key) ==
    /\ ~SfwBusy
    /\ calls < MaxOps
    /\ calls' = calls + 1
    /\ lastGet' = [key |-> key, result |-> MemGet(mem, key),
                   expected |-> IF key \in DOMAIN shadow THEN shadow[key] ELSE None,
                   n |-> calls + 1]
    /\ UNCHANGED <<platform, hexPrefix, fsVars, nextId, cliVars, gen, exp, log, mem,
                   temp_dir, tmpSeq, shadow, sfw, guard>>

NoTempDir == [set |-> FALSE, path |-> EmptyPath]

\* tempfile.mkdtemp(prefix='secure_wallet_')
TempDirPath(n) == Abs(<<DirComp(<<"tmp">>), [stem |-> <<"secure_wallet_">>, n |-> n,
                                              ext |-> <<>>]>>)

\* create_secure_tempdir()
CreateSecureTempdir ==
    /\ ~SfwBusy
    /\ calls < MaxOps
    /\ calls' = calls + 1
    /\ temp_dir' = [set |-> TRUE, path |-> TempDirPath(tmpSeq)]
    /\ tmpSeq' = tmpSeq + 1
    /\ dirs' = MakedirsResult(TempDirPath(tmpSeq))
    /\ UNCHANGED <<platform, hexPrefix, files, nextId, cliVars, gen, exp, log, mem,
                   lastGet, shadow, sfw, guard>>

\* os.rmdir(p) succeeds on an empty directory
RmdirOk(p) == \A f \in DOMAIN files : PathDirname(f) # p

\* cleanup()
Cleanup ==
    /\ ~SfwBusy
    /\ calls < MaxOps
    /\ calls' = calls + 1
    /\ mem' = MemClear(mem)
    /\ shadow' = NoMem
    /\ dirs' = IF temp_dir.set /\ temp_dir.path \in dirs /\ RmdirOk(temp_dir.path)
               THEN dirs \ {temp_dir.path} ELSE dirs
    /\ UNCHANGED <<platform, hexPrefix, files, nextId, cliVars, gen, exp, log,
                   temp_dir, tmpSeq, lastGet, sfw, guard>>

\* filepath + '.tmp'
TempPathOf(filepath) ==
    [abs |-> filepath.abs,
     parts |-> Front(filepath.parts) \o
               <<[Last(filepath.parts) EXCEPT !.ext = Append(@, "tmp")]>>]

SfwFilepaths ==
    {Rel(<<Comp(<<"keys">>, <<"json">>)>>)} \cup
    (IF temp_dir.set /\ temp_dir.path \in dirs
     THEN {PathJoin(temp_dir.path, Rel(<<Comp(<<"keys">>, <<"json">>)>>))} ELSE {})
SfwData == {<<"d1">>, <<"d2">>}

\* the except clause of secure_file_write: print and return False
SfwFail == sfw' = [sfw EXCEPT !.pc = "done", !.result = FALSE]

\* open(p, 'w') on an existing file: refused when the read-only attribute is set
CanTruncate(p) == ~FileExists(p) \/ files[p].mode # "readonly"

\* secure_file_write(filepath, data) is entered
SfwCall(filepath, data) ==
    /\ ~SfwBusy
    /\ calls < MaxOps
    /\ calls' = calls + 1
    /\ filepath \in SfwFilepaths
    /\ sfw' = [pc |-> "write", filepath |-> filepath, temp_path |-> TempPathOf(filepath),
               data |-> data, result |-> None]
    /\ UNCHANGED <<platform, hexPrefix, fsVars, nextId, cliVars, gen, exp, log, mem,
                   temp_dir, tmpSeq, lastGet, shadow, guard>>

\* lines 46-48: the data is written to the temporary path
SfwWrite ==
    /\ sfw.pc = "write"
    /\ IF CanCreate(sfw.temp_path) /\ CanTruncate(sfw.temp_path)
       THEN /\ files' = PutFile(files, sfw.temp_path,
                           [data |-> sfw.data,
                            mode |-> IF FileExists(sfw.temp_path)
                                     THEN files[sfw.temp_path].mode ELSE DefaultMode])
            /\ sfw' = [sfw EXCEPT !.pc = "protect"]
       ELSE /\ SfwFail
            /\ UNCHANGED files
    /\ UNCHANGED <<platform, hexPrefix, dirs, nextId, calls, cliVars, gen, exp, log,
                   mem, temp_dir, tmpSeq, lastGet, shadow, guard>>

\* lines 51-53 / 57: the temporary path is restricted
SfwProtect ==
    /\ sfw.pc = "protect"
    /\ files' = PutFile(files, sfw.temp_path,
                        [files[sfw.temp_path] EXCEPT !.mode = RestrictedMode])
    /\ sfw' = [sfw EXCEPT !.pc = "replace"]
    /\ UNCHANGED <<platform, hexPrefix, dirs, nextId, calls, cliVars, gen, exp, log,
                   mem, temp_dir, tmpSeq, lastGet, shadow, guard>>

\* line 52: import win32api raises on a Windows without pywin32
SfwProtectRaises ==
    /\ sfw.pc = "protect"
    /\ platform = "nt"
    /\ SfwFail
    /\ UNCHANGED <<platform, hexPrefix, fsVars, nextId, calls, cliVars, gen, exp, log,
                   mem, temp_dir, tmpSeq, lastGet, shadow, guard>>

\* os.replace(src, dst): Windows refuses to replace a read-only destination
CanReplace(dst) ==
    /\ dst \notin dirs
    /\ ~(platform = "nt" /\ FileExists(dst) /\ files[dst].mode = "readonly")

\* lines 54-55 / 58: the temporary path replaces the target
SfwReplace ==
    /\ sfw.pc = "replace"
    /\ IF CanReplace(sfw.filepath)
       THEN /\ files' = PutFile(DropFile(files, sfw.temp_path), sfw.filepath,
                                files[sfw.temp_path])
            /\ sfw' = IF platform = "nt"
                      THEN [sfw EXCEPT !.pc = "reprotect"]
                      ELSE [sfw EXCEPT !.pc = "done", !.result = TRUE]
       ELSE /\ SfwFail
            /\ UNCHANGED files
    /\ UNCHANGED <<platform, hexPrefix, dirs, nextId, calls, cliVars, gen, exp, log,
                   mem, temp_dir, tmpSeq, lastGet, shadow, guard>>

\* line 55: the attribute is set again on the target, then return True
SfwReprotect ==
    /\ sfw.pc = "reprotect"
    /\ files' = PutFile(files, sfw.filepath,
                        [files[sfw.filepath] EXCEPT !.mode = RestrictedMode])
    /\ sfw' = [sfw EXCEPT !.pc = "done", !.result = TRUE]
    /\ UNCHANGED <<platform, hexPrefix, dirs, nextId, calls, cliVars, gen, exp, log,
                   mem, temp_dir, tmpSeq, lastGet, shadow, guard>>

-----------------------------------------------------------------------------
(* check_runtime_environment *)

NoGuard == [pc |-> "idle", hasGettrace |-> TRUE, tracer |-> FALSE, socketOk |-> TRUE,
            connect |-> "ok", verbose |-> FALSE, result |-> None, out |-> None,
            open |-> FALSE]

GuardEnvs ==
    [hasGettrace : BOOLEAN, tracer : BOOLEAN, socketOk : BOOLEAN,
     connect : {"ok", "refused", "timeout"}, verbose : BOOLEAN]

\* mutant: the tracer check is skipped
TraceDetected_Never(g) == FALSE

\* hasattr(sys, 'gettrace') and sys.gettrace() is not None
TraceDetected(g) == g.hasGettrace /\ g.tracer

Say(g, text) == IF g.verbose THEN text ELSE None

\* check_runtime_environment(verbose) is entered
GuardCall(env) ==
    /\ guard.pc \in {"idle", "done"}
    /\ calls < MaxRuns
    /\ calls' = calls + 1
    /\ guard' = [pc |-> "trace", hasGettrace |-> env.hasGettrace, tracer |-> env.tracer,
                 socketOk |-> env.socketOk, connect |-> env.connect,
                 verbose |-> env.verbose, result |-> None, out |-> None,
                 open |-> FALSE]
    /\ UNCHANGED <<platform, hexPrefix, fsVars, nextId, cliVars, gen, exp, log,
                   isoVars>>

\* lines 110-113
GuardTrace ==
    /\ guard.pc = "trace"
    /\ guard' = IF TraceDetected(guard)
                THEN [guard EXCEPT !.pc = "done", !.result = FALSE,
                                   !.out = Say(guard, "debugger")]
                ELSE [guard EXCEPT !.pc = "socket"]
    /\ UNCHANGED <<platform, hexPrefix, fsVars, nextId, calls, cliVars, gen, exp, log,
                   isoVars>>

\* lines 116-118, and 130-133 when they raise
GuardSocket ==
    /\ guard.pc = "socket"
    /\ guard' = IF guard.socketOk
                THEN [guard EXCEPT !.pc = "connect", !.open = TRUE]
                ELSE [guard EXCEPT !.pc = "done", !.result = FALSE,
                                   !.out = Say(guard, "error")]
    /\ UNCHANGED <<platform, hexPrefix, fsVars, nextId, calls, cliVars, gen, exp, log,
                   isoVars>>

\* the verdict of lines 119-127 for a connection outcome
ConnectVerdict(outcome) == outcome # "ok"

\* lines 119-127
GuardConnect ==
    /\ guard.pc = "connect"
    /\ guard' = [guard EXCEPT !.pc = "close",
                              !.result = ConnectVerdict(guard.connect),
                              !.out = Say(guard, IF guard.connect = "ok"
                                                 THEN "network" ELSE "safe")]
    /\ UNCHANGED <<platform, hexPrefix, fsVars, nextId, calls, cliVars, gen, exp, log,
                   isoVars>>

\* lines 128-129: finally, then the value is returned
GuardClose ==
    /\ guard.pc = "close"
    /\ guard' = [guard EXCEPT !.pc = "done", !.open = FALSE]
    /\ UNCHANGED <<platform, hexPrefix, fsVars, nextId, calls, cliVars, gen, exp, log,
                   isoVars>>

-----------------------------------------------------------------------------
(* Specifications *)

Init ==
    /\ platform \in {"posix", "nt"}
    /\ hexPrefix \in BOOLEAN
    /\ dirs = {}
    /\ files = NoFiles
    /\ nextId = 1
    /\ calls = 0
    /\ mpc = "idle"
    /\ args = NoArgs
    /\ gen = NoGen
    /\ exp = NoExport
    /\ log = <<>>
    /\ mem = NoMem
    /\ temp_dir = NoTempDir
    /\ tmpSeq = 1
    /\ lastGet = NoGet
    /\ shadow = NoMem
    /\ sfw = NoSfw
    /\ guard = NoGuard

RunStep ==
    \/ RunIterate
    \/ RunProviderRaises
    \/ RunReturn

\* the command-line program, started up to MaxRuns times on the same disk
Next ==
    \/ \E c \in ChainArgs, n \in CountArgs : MainStart(c, n)
    \/ MainParseArgs
    \/ \E c \in ChainInputs : MenuChain(c)
    \/ \E n \in CountInputs : MenuCount(n)
    \/ MainConstruct
    \/ RunStep
    \/ MainExport
    \/ MainExcept
    \/ ExportStep
    \/ MainExportReturns
    \/ MainExit

Spec == Init /\ [][Next]_vars

\* WalletGenerator and export_to_excel called directly
NextApi ==
    \/ \E c \in ApiChains, n \in ApiCounts : ApiGenerate(c, n)
    \/ \E f \in ApiFilenames :
         \E w \in ApiBatches \cup {gen.wallets} : ApiExport(w, f)
    \/ RunStep
    \/ ExportStep

SpecApi == Init /\ [][NextApi]_vars

\* one SecurityIsolation object
NextIso ==
    \/ \E k \in StoreKeys, v \in StoreValues : StoreInMemory(k, v)
    \/ \E k \in StoreKeys : GetFromMemory(k)
    \/ CreateSecureTempdir
    \/ Cleanup
    \/ \E f \in SfwFilepaths, d \in SfwData : SfwCall(f, d)
    \/ SfwWrite
    \/ SfwProtect
    \/ SfwProtectRaises
    \/ SfwReplace
    \/ SfwReprotect

SpecIso == Init /\ [][NextIso]_vars

\* check_runtime_environment called up to MaxRuns times
NextGuard ==
    \/ \E e \in GuardEnvs : GuardCall(e)
    \/ GuardTrace
    \/ GuardSocket
    \/ GuardConnect
    \/ GuardClose

SpecGuard == Init /\ [][NextGuard]_vars

-----------------------------------------------------------------------------
(* Properties *)

ValidChains == {"eth", "sol"}

\* a field value of a record is a non-empty string
NonEmpty(v) == v.id > 0

CompleteRecord(w) == DOMAIN w = Fields /\ \A f \in Fields : NonEmpty(w[f])

\* C1: for chain in {eth, sol} and count > 0, what run() returns is a sequence of
\* exactly count records, in generation order, each with a non-empty address,
\* private_key and mnemonic.
C1_RunReturnsCountRecords ==
    (gen.status = "returned" /\ gen.chain_type \in ValidChains /\ gen.count > 0) =>
        /\ Len(gen.wallets) = gen.count
        /\ \A k \in 1..Len(gen.wallets) : CompleteRecord(gen.wallets[k])
        /\ \A k \in 1..Len(gen.wallets) : \A j \in 1..Len(gen.wallets) :
               k < j => gen.wallets[k].mnemonic.id < gen.wallets[j].mnemonic.id

C1_Witness ==
    /\ gen.status = "returned"
    /\ gen.chain_type = "eth"
    /\ gen.count = MaxCount
    /\ Len(gen.wallets) = MaxCount

\* C2: while an export is in progress the wallet data is never at its final path
\* with the default (non-restrictive) mode.
C2_NoDefaultModeWindow ==
    (ExportBusy /\ FileExists(exp.final_path)) =>
        ~(/\ files[exp.final_path].data = exp.wallets
          /\ files[exp.final_path].mode = DefaultMode)

\* C3 as stated: whenever the export reports success the artifact is owner-only
\* (0600 on POSIX, the restricted attribute on Windows).
C3_SuccessImpliesRestricted ==
    (exp.pc = "done" /\ exp.result = "success") =>
        /\ FileExists(exp.final_path)
        /\ files[exp.final_path].mode = RestrictedMode

\* C3 amended: whenever the export reports success the artifact holds the batch,
\* and it is owner-only unless the permission warning was printed, in which case
\* it keeps the mode it was created with.
C3_SuccessRestrictedUnlessWarned ==
    (exp.pc = "done" /\ exp.result = "success") =>
        /\ FileExists(exp.final_path)
        /\ files[exp.final_path].data = exp.wallets
        /\ files[exp.final_path].mode =
               (IF exp.warned THEN DefaultMode ELSE RestrictedMode)

C3_Witness ==
    /\ exp.pc = "done"
    /\ exp.result = "success"
    /\ ~exp.warned
    /\ platform = "posix"
    /\ FileExists(exp.final_path)
    /\ files[exp.final_path].mode = "0600"

\* C4: an export that follows a successful export of the same requested filename
\* succeeds at a different path with a numeric suffix in the same chain-named
\* directory, holds its own batch, and leaves the first artifact as it was.
C4_SecondExportGetsSuffix ==
    \A i \in 1..Len(log) : \A j \in 1..Len(log) :
        (/\ j = i + 1
         /\ log[i].filename = log[j].filename
         /\ log[i].result = "success"
         /\ \A k \in 1..Len(log[j].wallets) : CompleteRecord(log[j].wallets[k])
         /\ Len(log[j].wallets) > 0
         /\ ChainTypeOf(log[i].wallets) = ChainTypeOf(log[j].wallets)) =>
            /\ log[j].result = "success"
            /\ log[j].path # log[i].path
            /\ PathDirname(log[j].path) = PathDirname(log[i].path)
            /\ Last(log[j].path.parts).n >= 1
            /\ FileExists(log[i].path)
            /\ files[log[i].path].data = log[i].wallets
            /\ FileExists(log[j].path)
            /\ files[log[j].path].data = log[j].wallets

\* C5: an export of a batch in which some record lacks private_key or mnemonic
\* fails with the malformed-record error and changes no file or directory.
C5_MalformedRecordRejected ==
    (/\ exp.pc = "done"
     /\ \E k \in 1..Len(exp.wallets) :
            ~({"private_key", "mnemonic"} \subseteq DOMAIN exp.wallets[k])) =>
        /\ exp.result = "failed"
        /\ exp.error = "ValueError"
        /\ dirs = exp.fs0.dirs
        /\ files = exp.fs0.files

\* C6: a generator whose chain is neither eth nor sol calls neither provider and
\* generates no wallet.
C6_InvalidChainRejected ==
    (gen.status # "none" /\ gen.chain_type \notin ValidChains) =>
        /\ gen.providers = {}
        /\ gen.wallets = <<>>

\* C7: when the provider fails at iteration i, run() does not return, the export
\* is never entered, and the disk is as it was when the program started.
C7_FailedBatchNotPersisted ==
    (gen.status = "raised") =>
        /\ gen.failedAt \in 1..gen.count
        /\ Len(gen.wallets) = gen.failedAt - 1
        /\ mpc \in {"run", "exit", "idle"}
        /\ exp = NoExport
        /\ dirs = args.fs0.dirs
        /\ files = args.fs0.files

C7_Witness ==
    /\ gen.status = "raised"
    /\ gen.failedAt = 2
    /\ Len(gen.wallets) = 1
    /\ mpc = "exit"

\* C8: whenever the command-line program has constructed the generator, its chain
\* is eth or sol and its count is positive.
C8_CliPassesValidInputs ==
    (mpc \in {"run", "export"}) =>
        /\ gen.chain_type \in ValidChains
        /\ gen.count > 0

\* C9: get_from_memory(k) returns the value of the latest store_in_memory(k, v)
\* made since the last cleanup(), and None when there is none.
C9_GetReturnsLatestPut ==
    (lastGet.n > 0) => lastGet.result = lastGet.expected

C9_Witness ==
    /\ lastGet.n = MaxOps
    /\ lastGet.key = "a"
    /\ lastGet.result = "secret"
    /\ Sha256Hex("b") \in DOMAIN mem

\* C10: check_runtime_environment returns False when a tracer is detected whatever
\* the network does; without one it returns False when the socket setup raises or
\* the connection succeeds, and True when the connection fails or times out.
C10_GuardVerdict ==
    (guard.pc = "done") =>
        guard.result =
            (IF guard.hasGettrace /\ guard.tracer THEN FALSE
             ELSE IF ~guard.socketOk THEN FALSE
             ELSE guard.connect \in {"refused", "timeout"})

C10_Witness ==
    /\ guard.pc = "done"
    /\ guard.hasGettrace
    /\ guard.tracer
    /\ guard.socketOk
    /\ guard.connect = "timeout"
    /\ guard.result = FALSE

====
